---- MODULE Spec2Model ----
(***************************************************************************)
(* Model of the video-downloader backend (src/app.py): the filename        *)
(* sanitizer, the URL classifier, the eviction sweep, the /api/download    *)
(* job and the /api/download-file handler, over a scratch directory that   *)
(* concurrent request threads share; the cached probe of check_ffmpeg,     *)
(* the naming of an artifact, the format selector and /api/formats.        *)
(*                                                                         *)
(* Strings are sequences of one-character strings.  The scratch directory  *)
(* is a function from the names present in it to their entries.            *)
(***************************************************************************)
EXTENDS Integers, Sequences, FiniteSets, TLC

VARIABLES
    sx,        \* sanitizer run: the input string
    s1,        \* sanitizer run: sanitize_filename(sx)
    s2,        \* sanitizer run: sanitize_filename(s1)
    spc,       \* sanitizer run: "start", "once", "twice"
    raw,       \* classifier run: the raw url string
    ures,      \* classifier run: what validate_and_clean_url returned
    upc,       \* classifier run: "start", "done"
    fs,        \* the scratch directory: name -> [mtime, kind, data, locked]
    now,       \* the wall clock, in seconds
    ticks,     \* how many times the clock has advanced
    job,       \* per request thread: the locals of download()
    snap,      \* per request thread: the directory as it was when the
               \* thread's sweep started, then when its fetch returned,
               \* kept until the thread has located its file or failed
    fate,      \* per request thread: what became of the artifact it stored
    serve,     \* one /api/download-file request: the locals of download_file
    ff,        \* the cached probe result and the threads calling check_ffmpeg
    nm,        \* naming run: one final filename being built by download()
    sel,       \* selector run: one format_id and the selector chosen for it
    fm         \* one /api/formats request: the locals of get_formats

sanVars == <<sx, s1, s2, spc>>
urlVars == <<raw, ures, upc>>

dirVars == <<fs, now, ticks, job, snap, fate>>

auxVars == <<ff, nm, sel, fm>>

vars == <<sanVars, urlVars, dirVars, serve, auxVars>>

(***************************************************************************)
(* Strings                                                                 *)
(***************************************************************************)

\* the characters removed by the character class [<>:"/\\|?*]
ReservedChars == {"<", ">", ":", "\"", "/", "\\", "|", "?", "*"}

\* characters matched by \s and stripped by str.strip()
WhitespaceChars == {" ", "\t", "\n"}

\* the 8 hexadecimal characters of uuid.uuid4().hex[:8]; i picks the token
HexToken(i) == <<"0", "0", "0", "0", "0", "0", "0", i>>

HexDigits == {"1", "2"}

\* the strings over S of length at most n
SeqsUpTo(S, n) == UNION {[1..k -> S] : k \in 0..n}

Take(s, n) == IF Len(s) <= n THEN s ELSE SubSeq(s, 1, n)

StartsWith(s, p) == Len(p) <= Len(s) /\ SubSeq(s, 1, Len(p)) = p

\* re.sub(r'[<>:"/\\|?*]', '', s)
RemoveReserved(s) == SelectSeq(s, LAMBDA c : c \notin ReservedChars)

\* re.sub(r'\s+', ' ', s): every maximal run of whitespace becomes one space
\* (the last character of a run is kept as a space, the others are dropped)
CollapseWhitespace(s) ==
    LET marked == [i \in 1..Len(s) |->
                     IF s[i] \in WhitespaceChars
                     THEN IF i < Len(s) /\ s[i + 1] \in WhitespaceChars
                          THEN "drop" ELSE " "
                     ELSE s[i]]
    IN  SelectSeq(marked, LAMBDA c : c # "drop")

SetMin(S) == CHOOSE x \in S : \A y \in S : x <= y

SetMax(S) == CHOOSE x \in S : \A y \in S : x >= y

\* str.strip()
Strip(s) ==
    LET solid == {i \in 1..Len(s) : s[i] \notin WhitespaceChars}
    IN  IF solid = {} THEN <<>> ELSE SubSeq(s, SetMin(solid), SetMax(solid))

\* s.replace('|', '-').replace('/', '-')
ReplaceSeparators(s) ==
    [i \in 1..Len(s) |-> IF s[i] \in {"|", "/"} THEN "-" ELSE s[i]]

\* f"video_{uuid.uuid4().hex[:8]}.mp4"
FallbackName(tok) ==
    <<"v", "i", "d", "e", "o", "_">> \o HexToken(tok) \o <<".", "m", "p", "4">>

\* filename[:150]
MAX_FILENAME == 150

\* sanitize_filename(filename); tok is the digit the random token draws
sanitize_filename(filename, tok) ==
    IF filename = <<>> THEN FallbackName(tok)
    ELSE LET cleaned == ReplaceSeparators(
                            Strip(CollapseWhitespace(RemoveReserved(filename))))
         IN  IF cleaned # <<>> THEN Take(cleaned, MAX_FILENAME)
             ELSE FallbackName(tok)

(***************************************************************************)
(* URL validation and platform classification                              *)
(***************************************************************************)

\* the platform table, in the order the dictionary is written; each regular
\* expression is an alternation of literals, kept here as the set of literals
SUPPORTED_PLATFORMS == <<
    [name |-> "YouTube",
     alts |-> {<<"y", "o", "u", "t", "u", "b", "e", ".", "c", "o", "m">>,
               <<"y", "o", "u", "t", "u", ".", "b", "e">>}],
    [name |-> "Facebook",
     alts |-> {<<"f", "a", "c", "e", "b", "o", "o", "k", ".", "c", "o", "m">>,
               <<"f", "b", ".", "w", "a", "t", "c", "h">>,
               <<"f", "b", ".", "c", "o", "m">>}],
    [name |-> "Instagram",
     alts |-> {<<"i", "n", "s", "t", "a", "g", "r", "a", "m", ".", "c", "o", "m">>,
               <<"i", "n", "s", "t", "a", "g", "r", ".", "a", "m">>}],
    [name |-> "Twitter/X",
     alts |-> {<<"t", "w", "i", "t", "t", "e", "r", ".", "c", "o", "m">>,
               <<"x", ".", "c", "o", "m">>}],
    [name |-> "TikTok",
     alts |-> {<<"t", "i", "k", "t", "o", "k", ".", "c", "o", "m">>,
               <<"d", "o", "u", "y", "i", "n", ".", "c", "o", "m">>}],
    [name |-> "Dailymotion",
     alts |-> {<<"d", "a", "i", "l", "y", "m", "o", "t", "i", "o", "n", ".", "c", "o", "m">>}],
    [name |-> "Vimeo",
     alts |-> {<<"v", "i", "m", "e", "o", ".", "c", "o", "m">>}],
    [name |-> "Reddit",
     alts |-> {<<"r", "e", "d", "d", "i", "t", ".", "c", "o", "m">>}],
    [name |-> "Twitch",
     alts |-> {<<"t", "w", "i", "t", "c", "h", ".", "t", "v">>}],
    [name |-> "SoundCloud",
     alts |-> {<<"s", "o", "u", "n", "d", "c", "l", "o", "u", "d", ".", "c", "o", "m">>}],
    [name |-> "Bilibili",
     alts |-> {<<"b", "i", "l", "i", "b", "i", "l", "i", ".", "c", "o", "m">>}],
    [name |-> "Rumble",
     alts |-> {<<"r", "u", "m", "b", "l", "e", ".", "c", "o", "m">>}],
    [name |-> "LinkedIn",
     alts |-> {<<"l", "i", "n", "k", "e", "d", "i", "n", ".", "c", "o", "m">>}],
    [name |-> "Pinterest",
     alts |-> {<<"p", "i", "n", "t", "e", "r", "e", "s", "t", ".", "c", "o", "m">>}],
    [name |-> "9GAG",
     alts |-> {<<"9", "g", "a", "g", ".", "c", "o", "m">>}],
    [name |-> "Likee",
     alts |-> {<<"l", "i", "k", "e", "e", ".", "v", "i", "d", "e", "o">>}],
    [name |-> "Kwai",
     alts |-> {<<"k", "w", "a", "i", ".", "c", "o", "m">>}]
>>

HTTP_PREFIX == <<"h", "t", "t", "p", ":", "/", "/">>

HTTPS_PREFIX == <<"h", "t", "t", "p", "s", ":", "/", "/">>

\* re.IGNORECASE on the letters the inputs below use
LowerChar(c) == IF c = "Y" THEN "y" ELSE IF c = "T" THEN "t" ELSE c

Lower(s) == [i \in 1..Len(s) |-> LowerChar(s[i])]

Contains(s, p) ==
    \E i \in 1..(Len(s) - Len(p) + 1) : SubSeq(s, i, i + Len(p) - 1) = p

\* re.search(pattern, url, re.IGNORECASE) for the pattern of one table entry
PatternMatches(entry, url) == \E a \in entry.alts : Contains(Lower(url), a)

\* the loop of get_platform_name from table entry i on
RECURSIVE PlatformFrom(_, _)
PlatformFrom(i, url) ==
    IF i > Len(SUPPORTED_PLATFORMS) THEN "Other"
    ELSE IF PatternMatches(SUPPORTED_PLATFORMS[i], url)
         THEN SUPPORTED_PLATFORMS[i].name
         ELSE PlatformFrom(i + 1, url)

\* the table searched in the host alone
get_platform_name_host(url) ==
    LET after == SubSeq(url, SetMin({i \in 1..Len(url) : url[i] = ":"}) + 3,
                        Len(url))
        stops == {i \in 1..Len(after) : after[i] \in {"/", "?", "#"}}
    IN  PlatformFrom(1, IF stops = {} THEN after
                        ELSE SubSeq(after, 1, SetMin(stops) - 1))

get_platform_name(url) == PlatformFrom(1, url)

\* urllib.parse.urlparse on a url that starts with http:// or https://: the
\* scheme is what precedes "://", the netloc runs from after "//" to the
\* first of / ? #, and unbalanced square brackets in it raise ValueError
urlparse(url) ==
    LET colon == SetMin({i \in 1..Len(url) : url[i] = ":"})
        rest  == SubSeq(url, colon + 3, Len(url))
        stops == {i \in 1..Len(rest) : rest[i] \in {"/", "?", "#"}}
        net   == IF stops = {} THEN rest ELSE SubSeq(rest, 1, SetMin(stops) - 1)
        open  == \E i \in 1..Len(net) : net[i] = "["
        close == \E i \in 1..Len(net) : net[i] = "]"
    IN  [scheme |-> SubSeq(url, 1, colon - 1),
         netloc |-> net,
         raised |-> (open /\ ~close) \/ (close /\ ~open)]

NoResult == [url |-> <<>>, error |-> "", platform |-> ""]

\* the variables of a run that is not taking place
SanIdle == sx = <<>> /\ s1 = <<>> /\ s2 = <<>> /\ spc = "idle"

UrlIdle == raw = <<>> /\ ures = NoResult /\ upc = "idle"

\* validate_and_clean_url(url) -> (url, error, platform)
validate_and_clean_url(url) ==
    IF url = <<>> \/ Strip(url) = <<>>
    THEN [url |-> <<>>, error |-> "URL is required", platform |-> "Unknown"]
    ELSE LET stripped == Strip(url)
             full == IF StartsWith(stripped, HTTP_PREFIX)
                        \/ StartsWith(stripped, HTTPS_PREFIX)
                     THEN stripped
                     ELSE HTTPS_PREFIX \o stripped
             parsed == urlparse(full)
         IN  IF parsed.raised \/ parsed.scheme = <<>> \/ parsed.netloc = <<>>
             THEN [url |-> <<>>, error |-> "Invalid URL format",
                   platform |-> "Unknown"]
             ELSE [url |-> full, error |-> "None",
                   platform |-> get_platform_name(full)]

(***************************************************************************)
(* The scratch directory and the /api/download handler                     *)
(***************************************************************************)

\* clean_old_files(age_seconds=3600)
AGE_SECONDS == 3600

\* datetime.now().timestamp() - 300 in the fallback scan
RECENT_WINDOW == 300

NumThreads == 2

MaxTicks == 2

Procs == 1..NumThreads

\* the age test with >= for >
IsOldInclusive(at, mtime) == at - mtime >= AGE_SECONDS

\* now - os.path.getmtime(path) > age_seconds
IsOld(at, mtime) == at - mtime > AGE_SECONDS

\* the window test with >= for >
IsRecentInclusive(at, mtime) == mtime >= at - RECENT_WINDOW

\* os.path.getmtime(...) > datetime.now().timestamp() - 300
IsRecent(at, mtime) == mtime > at - RECENT_WINDOW

\* os.path.isfile(path)
IsFile(files, name) == name \in DOMAIN files /\ files[name].kind = "file"

\* os.path.exists(path)
Exists(files, name) == name \in DOMAIN files

\* os.remove(path), when it succeeds
RemoveFile(files, name) == [n \in DOMAIN files \ {name} |-> files[n]]

\* os.rename(src, dst): dst is replaced when present
RenameFile(files, src, dst) ==
    [n \in (DOMAIN files \ {src}) \cup {dst} |->
        IF n = dst THEN files[src] ELSE files[n]]

\* what the engine writes: outtmpl is f'{uid}_%(title)s.%(ext)s'
WriteFile(files, name, entry) ==
    [n \in DOMAIN files \cup {name} |-> IF n = name THEN entry ELSE files[n]]

\* os.path.getsize(path) of a file holding the bytes of `data`
FileSize(entry) == 100 + entry.data

\* os.path.splitext(path)[1]
Splitext(name) ==
    LET dots == {i \in 1..Len(name) : name[i] = "."}
    IN  IF dots = {} \/ SetMax(dots) = 1 THEN <<>>
        ELSE SubSeq(name, SetMax(dots), Len(name))

MP3 == <<"m", "p", "3">>

M4A == <<"m", "4", "a">>

F18 == <<"1", "8">>

DOT_MP3 == <<".", "m", "p", "3">>

DOT_M4A == <<".", "m", "4", "a">>

DOT_MP4 == <<".", "m", "p", "4">>

VIDEO == <<"v", "i", "d", "e", "o">>

\* what ydl.extract_info returned: None, or the title and the formats
NoInfo == [present |-> FALSE, title |-> <<>>, formats |-> <<>>]

\* f"_{fmt['height']}p" of the first format with this id and a height
RECURSIVE ResolutionFrom(_, _, _)
ResolutionFrom(i, formats, format_id) ==
    IF i > Len(formats) THEN <<>>
    ELSE IF formats[i].format_id = format_id /\ formats[i].height # <<>>
         THEN <<"_">> \o formats[i].height \o <<"p">>
         ELSE ResolutionFrom(i + 1, formats, format_id)

\* a final filename that keeps the name the engine wrote
FinalFilenameKeepsOriginal(info, format_id, original, tok) == original

\* the final filename of a job, before the second sanitize_filename
FinalFilename(info, format_id, original, tok) ==
    LET video_title == IF info.present THEN info.title ELSE VIDEO
        safe_title  == sanitize_filename(video_title, tok)
        resolution  == IF info.present
                       THEN ResolutionFrom(1, info.formats, format_id)
                       ELSE <<>>
        ext         == Splitext(original)
    IN  IF format_id = MP3 THEN safe_title \o DOT_MP3
        ELSE IF format_id = M4A THEN safe_title \o DOT_M4A
        ELSE IF Lower(ext) # DOT_MP4 THEN safe_title \o resolution \o DOT_MP4
        ELSE safe_title \o resolution \o ext

(***************************************************************************)
(* The engine, as far as the handler sees it                               *)
(***************************************************************************)

URL_A == <<"y", "o", "u", "t", "u", ".", "b", "e", "/", "a">>

\* the title and the formats the engine reports for a url
EngineInfo(url) ==
    [present |-> TRUE,
     title   |-> <<"T">>,
     formats |-> <<[format_id |-> F18, height |-> <<"3", "6", "0">>]>>]

\* the file the engine writes for a job: uid, "_", title, extension
EngineFile(uid, info, format_id) ==
    uid \o <<"_">> \o info.title
        \o (IF format_id = MP3 THEN DOT_MP3
            ELSE IF format_id = M4A THEN DOT_M4A ELSE DOT_MP4)

\* fetch either writes its file and returns the info, or (ignoreerrors)
\* writes nothing and returns None, or raises DownloadError
EngineOutcomes == {"ok", "none", "raise"}

\* request bodies: url and format_id as data.get(..., "") yields them
Requests == {
    [url |-> URL_A, format_id |-> F18],
    [url |-> URL_A, format_id |-> MP3],
    [url |-> <<" ">>, format_id |-> F18],
    [url |-> URL_A, format_id |-> <<>>],
    [url |-> <<"/">>, format_id |-> F18]
}

IdleJob ==
    [pc |-> "idle", url |-> <<>>, format_id |-> <<>>, now0 |-> 0,
     todo |-> {}, cur |-> <<>>, uid |-> <<>>, info |-> NoInfo,
     orig |-> <<>>, final |-> <<>>, fallback |-> FALSE, engine |-> FALSE,
     status |-> 0, cause |-> "", size |-> 0]

NoFiles == [n \in {} |-> 0]

IdleServe ==
    [pc |-> "idle", name |-> <<>>, safe |-> <<>>, status |-> 0,
     touched |-> {}, sent |-> "nothing"]

DirIdle ==
    /\ serve = IdleServe
    /\ fs = NoFiles
    /\ now = 0
    /\ ticks = 0
    /\ job = [p \in Procs |-> IdleJob]
    /\ snap = [p \in Procs |-> NoFiles]
    /\ fate = [p \in Procs |-> "none"]

\* check_ffmpeg() has not been called by anyone
IdleCall ==
    [pc |-> "idle", calls |-> 0, out |-> "None", ret |-> "None",
     hit |-> FALSE]

IdleFf ==
    [cache |-> "None", probes |-> 0, entry |-> "none", first |-> "None",
     th |-> [p \in Procs |-> IdleCall]]

IdleNm == [pc |-> "idle", info |-> NoInfo, format_id |-> <<>>,
           original |-> <<>>, final |-> <<>>]

IdleSel == [pc |-> "idle", url |-> <<>>, format_id |-> <<>>, status |-> 0,
            engine |-> FALSE, selector |-> <<>>]

IdleFm == [pc |-> "idle", url |-> <<>>, engine |-> "none", formats |-> <<>>,
           status |-> 0, video_formats |-> <<>>, audio_formats |-> <<>>]

AuxIdle == ff = IdleFf /\ nm = IdleNm /\ sel = IdleSel /\ fm = IdleFm

\* the handler's except clauses: a JSON error with this status
Fail(p, code, why) ==
    job' = [job EXCEPT ![p].pc = "done", ![p].status = code, ![p].cause = why,
                       ![p].todo = {}, ![p].cur = <<>>]

\* the artifacts that a step changed or removed get the step's label
FateAfter(files, label) ==
    [q \in Procs |->
        IF fate[q] = "live"
           /\ (job[q].final \notin DOMAIN files
               \/ files[job[q].final] # fs[job[q].final])
        THEN label
        ELSE fate[q]]

\* download(): clean_old_files() takes the time and lists the directory
Start(p) ==
    /\ job[p].pc = "idle"
    /\ \E r \in Requests :
         job' = [job EXCEPT ![p].pc = "sweep",
                            ![p].url = r.url,
                            ![p].format_id = r.format_id,
                            ![p].now0 = now,
                            ![p].todo = DOMAIN fs]
    /\ snap' = [snap EXCEPT ![p] = fs]
    /\ UNCHANGED <<fs, now, ticks, fate, sanVars, urlVars, serve, auxVars>>

\* clean_old_files: the next listed name, and os.path.isfile on it
SweepIsfile(p) ==
    /\ job[p].pc = "sweep"
    /\ IF job[p].todo = {}
       THEN job' = [job EXCEPT ![p].pc = "handle", ![p].cur = <<>>]
       ELSE \E f \in job[p].todo :
              job' = [job EXCEPT ![p].todo = @ \ {f},
                                 ![p].cur = f,
                                 ![p].pc = IF IsFile(fs, f)
                                           THEN "sweep_mtime" ELSE "sweep"]
    /\ UNCHANGED <<fs, now, ticks, snap, fate, sanVars, urlVars, serve, auxVars>>

\* clean_old_files: os.path.getmtime, outside the try block
SweepGetmtime(p) ==
    /\ job[p].pc = "sweep_mtime"
    /\ IF ~Exists(fs, job[p].cur)
       THEN /\ Fail(p, 500, "sweep")
            /\ snap' = [snap EXCEPT ![p] = NoFiles]
       ELSE /\ job' = [job EXCEPT ![p].pc =
                          IF IsOld(job[p].now0, fs[job[p].cur].mtime)
                          THEN "sweep_remove" ELSE "sweep"]
            /\ UNCHANGED snap
    /\ UNCHANGED <<fs, now, ticks, fate, sanVars, urlVars, serve, auxVars>>

\* clean_old_files: os.remove inside try/except Exception
SweepRemove(p) ==
    /\ job[p].pc = "sweep_remove"
    /\ LET f == job[p].cur
           after == IF Exists(fs, f) /\ ~fs[f].locked
                    THEN RemoveFile(fs, f) ELSE fs
       IN  /\ fs' = after
           /\ fate' = FateAfter(after, "evicted")
    /\ job' = [job EXCEPT ![p].pc = "sweep"]
    /\ UNCHANGED <<now, ticks, snap, sanVars, urlVars, serve, auxVars>>

\* download(): the body is read and checked, the uid minted, the engine run
Handle(p) ==
    /\ job[p].pc = "handle"
    /\ LET url == Strip(job[p].url)
           format_id == Strip(job[p].format_id)
           checked == validate_and_clean_url(url)
       IN  IF url = <<>> \/ format_id = <<>> \/ checked.error # "None"
           THEN /\ Fail(p, 400, "input")
                /\ snap' = [snap EXCEPT ![p] = NoFiles]
                /\ UNCHANGED fs
           ELSE \E d \in HexDigits, outcome \in EngineOutcomes :
                  LET uid == HexToken(d)
                      info == EngineInfo(checked.url)
                      written == WriteFile(fs,
                                     EngineFile(uid, info, format_id),
                                     [mtime |-> now, kind |-> "file",
                                      data |-> p, locked |-> FALSE])
                  IN  IF outcome = "raise"
                      THEN /\ job' = [job EXCEPT ![p].pc = "done",
                                                 ![p].status = 500,
                                                 ![p].cause = "engine",
                                                 ![p].engine = TRUE,
                                                 ![p].uid = uid]
                           /\ snap' = [snap EXCEPT ![p] = NoFiles]
                           /\ UNCHANGED fs
                      ELSE /\ job' = [job EXCEPT
                                  ![p].pc = "locate",
                                  ![p].url = checked.url,
                                  ![p].format_id = format_id,
                                  ![p].engine = TRUE,
                                  ![p].uid = uid,
                                  ![p].info = IF outcome = "ok"
                                              THEN info ELSE NoInfo]
                           /\ fs' = IF outcome = "ok" THEN written ELSE fs
                           /\ snap' = [snap EXCEPT ![p] =
                                  IF outcome = "ok" THEN written ELSE fs]
    /\ UNCHANGED <<now, ticks, fate, sanVars, urlVars, serve, auxVars>>

\* the name a job will give its file, from the file it located
Located(p, f, viaFallback) ==
    \E tok \in HexDigits :
      job' = [job EXCEPT
                ![p].pc = "rename_exists",
                ![p].todo = {},
                ![p].orig = f,
                ![p].fallback = viaFallback,
                ![p].final = sanitize_filename(
                    FinalFilename(job[p].info, job[p].format_id, f, tok),
                    tok)]

\* download(): the first listing, kept to the names that start with the uid
Locate(p) ==
    /\ job[p].pc = "locate"
    /\ LET mine == {f \in DOMAIN fs : StartsWith(f, job[p].uid)}
       IN  IF mine # {}
           THEN \E f \in mine : Located(p, f, FALSE)
           ELSE job' = [job EXCEPT ![p].pc = "relist"]
    /\ snap' = IF job'[p].pc = "relist" THEN snap
               ELSE [snap EXCEPT ![p] = NoFiles]
    /\ UNCHANGED <<fs, now, ticks, fate, sanVars, urlVars, serve, auxVars>>

\* download(): the second listing, for the fallback scan
Relist(p) ==
    /\ job[p].pc = "relist"
    /\ job' = [job EXCEPT ![p].pc = "fallback", ![p].todo = DOMAIN fs]
    /\ UNCHANGED <<fs, now, ticks, snap, fate, sanVars, urlVars, serve, auxVars>>

\* download(): the fallback scan takes the first listed name whose mtime is
\* within the window; the listing order is the file system's
Fallback(p) ==
    /\ job[p].pc = "fallback"
    /\ IF job[p].todo = {}
       THEN Fail(p, 500, "nofile")
       ELSE \E f \in job[p].todo :
              IF ~Exists(fs, f)
              THEN Fail(p, 500, "locate")
              ELSE IF IsRecent(now, fs[f].mtime)
                   THEN Located(p, f, TRUE)
                   ELSE job' = [job EXCEPT ![p].todo = @ \ {f}]
    /\ snap' = IF job'[p].pc = "fallback" THEN snap
               ELSE [snap EXCEPT ![p] = NoFiles]
    /\ UNCHANGED <<fs, now, ticks, fate, sanVars, urlVars, serve, auxVars>>

\* download(): original_file != final_path, then os.path.exists(final_path)
RenameExists(p) ==
    /\ job[p].pc = "rename_exists"
    /\ job' = [job EXCEPT ![p].pc =
                  IF job[p].orig = job[p].final THEN "size_exists"
                  ELSE IF Exists(fs, job[p].final) THEN "rename_remove"
                  ELSE "rename"]
    /\ UNCHANGED <<fs, now, ticks, snap, fate, sanVars, urlVars, serve, auxVars>>

\* download(): os.remove(final_path)
RenameRemove(p) ==
    /\ job[p].pc = "rename_remove"
    /\ IF IsFile(fs, job[p].final) /\ ~fs[job[p].final].locked
       THEN /\ fs' = RemoveFile(fs, job[p].final)
            /\ fate' = FateAfter(RemoveFile(fs, job[p].final), "overwritten")
            /\ job' = [job EXCEPT ![p].pc = "rename"]
       ELSE /\ Fail(p, 500, "remove")
            /\ UNCHANGED <<fs, fate>>
    /\ UNCHANGED <<now, ticks, snap, sanVars, urlVars, serve, auxVars>>

\* download(): os.rename(original_file, final_path)
Rename(p) ==
    /\ job[p].pc = "rename"
    /\ IF Exists(fs, job[p].orig)
       THEN LET after == RenameFile(fs, job[p].orig, job[p].final)
            IN  /\ fs' = after
                /\ fate' = [q \in Procs |->
                              IF FateAfter(after, "x")[q] # "x" THEN fate[q]
                              ELSE IF job[q].final = job[p].final
                                   THEN "overwritten" ELSE "taken"]
                /\ job' = [job EXCEPT ![p].pc = "size_exists"]
       ELSE /\ Fail(p, 500, "rename")
            /\ UNCHANGED <<fs, fate>>
    /\ UNCHANGED <<now, ticks, snap, sanVars, urlVars, serve, auxVars>>

\* download(): os.path.exists(final_path) before os.path.getsize
SizeExists(p) ==
    /\ job[p].pc = "size_exists"
    /\ job' = IF Exists(fs, job[p].final)
              THEN [job EXCEPT ![p].pc = "getsize"]
              ELSE [job EXCEPT ![p].pc = "done", ![p].status = 200,
                               ![p].size = 0]
    /\ UNCHANGED <<fs, now, ticks, snap, fate, sanVars, urlVars, serve, auxVars>>

\* download(): os.path.getsize(final_path), then the success response
Getsize(p) ==
    /\ job[p].pc = "getsize"
    /\ IF Exists(fs, job[p].final)
       THEN /\ job' = [job EXCEPT ![p].pc = "done", ![p].status = 200,
                                  ![p].size = FileSize(fs[job[p].final])]
            /\ fate' = [fate EXCEPT ![p] = "live"]
       ELSE /\ Fail(p, 500, "getsize")
            /\ UNCHANGED fate
    /\ UNCHANGED <<fs, now, ticks, snap, sanVars, urlVars, serve, auxVars>>

\* time passes between requests: a request is short against the 300 s and
\* 3600 s thresholds, so the clock reads of one request agree
TickSteps == {RECENT_WINDOW, AGE_SECONDS + 1}

Tick ==
    /\ ticks < MaxTicks
    /\ \A p \in Procs : job[p].pc \in {"idle", "done"}
    /\ \E d \in TickSteps : now' = now + d
    /\ ticks' = ticks + 1
    /\ UNCHANGED <<fs, job, snap, fate, sanVars, urlVars, serve, auxVars>>

Step(p) ==
    \/ SweepIsfile(p)
    \/ SweepGetmtime(p)
    \/ SweepRemove(p)
    \/ Handle(p)
    \/ Locate(p)
    \/ Relist(p)
    \/ Fallback(p)
    \/ RenameExists(p)
    \/ RenameRemove(p)
    \/ Rename(p)
    \/ SizeExists(p)
    \/ Getsize(p)

\* files left in the directory by an earlier run of the server
T0 == AGE_SECONDS + 1

OldFile == [mtime |-> 0, kind |-> "file", data |-> 0, locked |-> FALSE]

LockedFile == [mtime |-> 0, kind |-> "file", data |-> 0, locked |-> TRUE]

InitDir(files) ==
    /\ fs \in files
    /\ now = T0
    /\ ticks = 0
    /\ job = [p \in Procs |-> IdleJob]
    /\ snap = [p \in Procs |-> NoFiles]
    /\ fate = [p \in Procs |-> "none"]
    /\ serve = IdleServe
    /\ SanIdle
    /\ UrlIdle
    /\ AuxIdle

Restrict(f, S) == [n \in S |-> f[n]]

Leftovers ==
    (<<"o">> :> OldFile) @@ (<<"k">> :> LockedFile)

\* request threads run concurrently
Init == InitDir({Restrict(Leftovers, S) : S \in SUBSET DOMAIN Leftovers})

Next == Tick \/ \E p \in Procs : Start(p) \/ Step(p)

Spec == Init /\ [][Next]_vars


\* one request at a time, thread p serving the p-th request: it starts when
\* the requests before it are answered
StartAlone(p) ==
    /\ \A q \in Procs : q < p => job[q].pc = "done"
    /\ \A q \in Procs : q > p => job[q].pc = "idle"
    /\ Start(p)

BoundaryFile ==
    [mtime |-> T0 - AGE_SECONDS, kind |-> "file", data |-> 0, locked |-> FALSE]

RecentFile == [mtime |-> T0 - 1, kind |-> "file", data |-> 0, locked |-> FALSE]

OldDir == [mtime |-> 0, kind |-> "dir", data |-> 0, locked |-> FALSE]

LeftoversSeq ==
    Leftovers @@ (<<"e">> :> BoundaryFile) @@ (<<"r">> :> RecentFile)
              @@ (<<"d">> :> OldDir)

InitSeq ==
    InitDir({Restrict(LeftoversSeq, S) : S \in SUBSET DOMAIN LeftoversSeq})

NextSeq == Tick \/ \E p \in Procs : StartAlone(p) \/ Step(p)

SpecSeq == InitSeq /\ [][NextSeq]_vars

(***************************************************************************)
(* Properties of the download handler                                      *)
(***************************************************************************)

Done(p) == job[p].pc = "done"

\* the job's fetch wrote its file and the job located it by its uid
OwnFile(p) == job[p].info.present /\ job[p].final # <<>> /\ ~job[p].fallback

SameRequest(p, q) ==
    job[p].url = job[q].url /\ job[p].format_id = job[q].format_id

\* job q ran right after job p and no job has started since
SequentialPair(p, q) ==
    /\ q = p + 1
    /\ \A r \in Procs : r > q => job[r].pc = "idle"
    /\ Done(p) /\ Done(q)
    /\ OwnFile(p) /\ OwnFile(q)
    /\ SameRequest(p, q)
    /\ fate[p] # "evicted" /\ fate[q] # "evicted"

SweepDone(p) == job[p].pc = "handle"

\* C5 as stated: after a sweep every regular file older than the threshold
\* is gone, every other entry is present and unchanged, and an empty
\* directory stays empty
C5_SweepRemovesAllOld ==
    \A p \in Procs :
        SweepDone(p) =>
            /\ \A n \in DOMAIN snap[p] :
                 IF snap[p][n].kind = "file"
                    /\ job[p].now0 - snap[p][n].mtime > AGE_SECONDS
                 THEN n \notin DOMAIN fs
                 ELSE n \in DOMAIN fs /\ fs[n] = snap[p][n]
            /\ snap[p] = NoFiles => fs = NoFiles

\* C5 amended: after a sweep every regular file older than the threshold
\* whose deletion succeeded is gone; a file whose deletion failed, a file
\* not older than the threshold and an entry that is not a regular file are
\* present and unchanged; nothing else appears
C5_SweepRemovesDeletableOld ==
    \A p \in Procs :
        SweepDone(p) =>
            /\ DOMAIN fs \subseteq DOMAIN snap[p]
            /\ \A n \in DOMAIN snap[p] :
                 IF /\ snap[p][n].kind = "file"
                    /\ job[p].now0 - snap[p][n].mtime > AGE_SECONDS
                    /\ ~snap[p][n].locked
                 THEN n \notin DOMAIN fs
                 ELSE n \in DOMAIN fs /\ fs[n] = snap[p][n]

\* C5 witness: a sweep has removed an old file, kept an old file that could
\* not be deleted and kept a file exactly as old as the threshold
C5_Witness ==
    \E p \in Procs :
        /\ SweepDone(p)
        /\ {<<"o">>, <<"k">>, <<"e">>} \subseteq DOMAIN snap[p]
        /\ <<"o">> \notin DOMAIN fs
        /\ {<<"k">>, <<"e">>} \subseteq DOMAIN fs
        /\ job[p].now0 - snap[p][<<"e">>].mtime = AGE_SECONDS

JustLocated(p) == job[p].pc = "rename_exists"

WithinWindow(n) == fs[n].mtime > now - RECENT_WINDOW

\* the step in which job p gives up for want of a file
GivesUp(p) == job[p].pc = "fallback" /\ job'[p].cause = "nofile"

\* C7 as stated: the file picked carries the job's uid when such a file
\* exists; otherwise it is the most recently modified of the files modified
\* in the last 5 minutes; otherwise the job fails with nothing renamed or
\* deleted
C7_FallbackPicksNewest ==
    /\ [](\A p \in Procs :
            /\ JustLocated(p) /\ ~job[p].fallback =>
                  StartsWith(job[p].orig, job[p].uid)
            /\ JustLocated(p) /\ job[p].fallback =>
                  /\ \A n \in DOMAIN fs : ~StartsWith(n, job[p].uid)
                  /\ job[p].orig \in DOMAIN fs
                  /\ WithinWindow(job[p].orig)
                  /\ \A n \in DOMAIN fs :
                        fs[n].mtime <= fs[job[p].orig].mtime)
    /\ [][\A p \in Procs :
            GivesUp(p) => job'[p].status = 500 /\ fs' = snap[p]]_vars

\* C7 amended: the file picked carries the job's uid when such a file
\* exists; otherwise it is some file modified in the last 5 minutes, the
\* first the directory listing yields, not necessarily the newest;
\* when no file carries the uid and none is that recent the job fails with
\* HTTP 500 and nothing renamed or deleted
C7_FallbackPicksSomeRecent ==
    /\ [](\A p \in Procs :
            /\ JustLocated(p) /\ ~job[p].fallback =>
                  /\ job[p].orig \in DOMAIN fs
                  /\ StartsWith(job[p].orig, job[p].uid)
            /\ JustLocated(p) /\ job[p].fallback =>
                  /\ \A n \in DOMAIN fs : ~StartsWith(n, job[p].uid)
                  /\ job[p].orig \in DOMAIN fs
                  /\ WithinWindow(job[p].orig))
    /\ [][\A p \in Procs :
            GivesUp(p) =>
                /\ job'[p].status = 500
                /\ fs' = snap[p]
                /\ \A n \in DOMAIN fs :
                      ~StartsWith(n, job[p].uid) /\ ~WithinWindow(n)]_vars

\* C7 witness: a job whose fetch wrote nothing picked, by the fallback, a
\* recent file while a more recently modified file was in the directory
C7_Witness ==
    \E p \in Procs :
        /\ JustLocated(p)
        /\ job[p].fallback
        /\ \E n \in DOMAIN fs : fs[n].mtime > fs[job[p].orig].mtime

\* C8: an artifact a job stored stays under its name, unchanged, until a
\* sweep removes it for its age or a later job with the same final filename
\* overwrites it; no other job renames, moves or deletes it
C8_ArtifactKept ==
    \A p \in Procs : fate[p] \in {"none", "live", "evicted", "overwritten"}

MissingField(p) == Strip(job[p].url) = <<>> \/ Strip(job[p].format_id) = <<>>

\* C4: a request without url or without format_id is answered 400, never
\* 500, and the engine is not invoked for it
C4_MissingFieldsGet400 ==
    \A p \in Procs :
        Done(p) /\ MissingField(p) =>
            job[p].status = 400 /\ ~job[p].engine

\* C9: two jobs with different uids that resolve to the same final filename
\* both end in success, whatever the interleaving of their exists-check,
\* delete and rename, and the final path holds the complete file of one of
\* them
C9_SameNameBothSucceed ==
    \A p, q \in Procs :
        (/\ p # q
         /\ Done(p) /\ Done(q)
         /\ OwnFile(p) /\ OwnFile(q)
         /\ job[p].uid # job[q].uid
         /\ job[p].final = job[q].final) =>
            /\ job[p].status = 200 /\ job[q].status = 200
            /\ job[p].final \in DOMAIN fs
            /\ fs[job[p].final].data \in {p, q}

\* C10: no request ends in failure because its eviction sweep raised
C10_SweepNeverRaises ==
    \A p \in Procs : job[p].cause # "sweep"

\* the step in which job p produces its success response
Responds(p) ==
    job[p].pc # "done" /\ job'[p].pc = "done" /\ job'[p].status = 200

\* C15: when a job answers success with filename F and size_bytes N, a file
\* named F is in the scratch directory at that moment and N is its size,
\* in every interleaving with the other request threads
C15_ResponseMatchesDisk ==
    [][\A p \in Procs :
          Responds(p) =>
              /\ job'[p].final \in DOMAIN fs'
              /\ job'[p].size = FileSize(fs'[job'[p].final])]_vars

(***************************************************************************)
(* The /api/download-file handler                                          *)
(***************************************************************************)

\* what os.path.join(DOWNLOADS_DIR, name) denotes for a name without
\* separators: the directory itself, its parent, or an entry of it
PathOf(name) ==
    IF name = <<".">> THEN "scratch"
    ELSE IF name = <<".", ".">> THEN "parent"
    ELSE "entry"

\* os.path.exists(os.path.join(DOWNLOADS_DIR, name))
PathExists(files, name) == PathOf(name) # "entry" \/ Exists(files, name)

\* whether the path is a regular file that send_file can open
PathIsFile(files, name) == PathOf(name) = "entry" /\ IsFile(files, name)

\* download_file: sanitize_filename, os.path.join, os.path.exists
ServeLookup ==
    /\ serve.pc = "lookup"
    /\ \E tok \in HexDigits :
         LET safe == sanitize_filename(serve.name, tok)
         IN  serve' = IF PathExists(fs, safe)
                      THEN [serve EXCEPT !.pc = "getsize", !.safe = safe]
                      ELSE [serve EXCEPT !.pc = "done", !.safe = safe,
                                         !.status = 404]
    /\ UNCHANGED <<dirVars, sanVars, urlVars, auxVars>>

\* download_file: os.path.getsize(path) and the "Serving file" log line
ServeGetsize ==
    /\ serve.pc = "getsize"
    /\ serve' = IF PathExists(fs, serve.safe)
                THEN [serve EXCEPT !.pc = "send",
                                   !.touched = @ \cup {PathOf(serve.safe)}]
                ELSE [serve EXCEPT !.pc = "done", !.status = 500]
    /\ UNCHANGED <<dirVars, sanVars, urlVars, auxVars>>

\* download_file: send_file(path, ...) streams a regular file and raises on
\* anything else, which the except clause answers with 500
ServeSend ==
    /\ serve.pc = "send"
    /\ serve' = IF PathIsFile(fs, serve.safe)
                THEN [serve EXCEPT !.pc = "done", !.status = 200,
                                   !.sent = "entry"]
                ELSE [serve EXCEPT !.pc = "done", !.status = 500]
    /\ UNCHANGED <<dirVars, sanVars, urlVars, auxVars>>

MaxName == 3

NameAlphabet == {".", "/", "\\", "a"}

\* the names requested: every string over the alphabet, the empty one
\* excepted (the route does not match it)
RequestNames == SeqsUpTo(NameAlphabet, MaxName) \ {<<>>}

PlainFile == [mtime |-> T0, kind |-> "file", data |-> 0, locked |-> FALSE]

ServeFiles == (<<"a">> :> PlainFile) @@ (<<".", ".", "a">> :> PlainFile)

InitServe ==
    /\ fs \in {Restrict(ServeFiles, S) : S \in SUBSET DOMAIN ServeFiles}
    /\ now = T0
    /\ ticks = 0
    /\ job = [p \in Procs |-> IdleJob]
    /\ snap = [p \in Procs |-> NoFiles]
    /\ fate = [p \in Procs |-> "none"]
    /\ \E n \in RequestNames : serve = [IdleServe EXCEPT !.pc = "lookup",
                                                         !.name = n]
    /\ SanIdle
    /\ UrlIdle
    /\ AuxIdle

NextServe == ServeLookup \/ ServeGetsize \/ ServeSend

SpecServe == InitServe /\ [][NextServe]_vars

\* C3: every request for a file is answered 404 or streams a regular file
\* that lies directly in the scratch directory, and the handler looks at no
\* path other than an entry of the scratch directory
C3_OnlyScratchEntries ==
    /\ serve.pc = "done" => serve.status \in {404, 200}
    /\ serve.status = 200 => serve.sent = "entry" /\ IsFile(fs, serve.safe)
    /\ "parent" \notin serve.touched

(***************************************************************************)
(* The sanitizer applied to bounded inputs, then to its own output         *)
(***************************************************************************)

MaxEdge == 2

SanAlphabet == {"a", " ", "/", "."}

Filler(n) == [i \in 1..n |-> "a"]

\* inputs: a short tail after a filler that is empty or reaches the cut
SanPads == {0, MAX_FILENAME - 1, MAX_FILENAME}

SanInputs ==
    {Filler(k) \o t : k \in SanPads, t \in SeqsUpTo(SanAlphabet, MaxEdge)}

InitSanitize ==
    /\ sx \in SanInputs
    /\ s1 = <<>>
    /\ s2 = <<>>
    /\ spc = "start"
    /\ UrlIdle
    /\ DirIdle
    /\ AuxIdle

SanitizeOnce ==
    /\ spc = "start"
    /\ \E tok \in HexDigits : s1' = sanitize_filename(sx, tok)
    /\ spc' = "once"
    /\ UNCHANGED <<sx, s2, urlVars, dirVars, serve, auxVars>>

SanitizeTwice ==
    /\ spc = "once"
    /\ \E tok \in HexDigits : s2' = sanitize_filename(s1, tok)
    /\ spc' = "twice"
    /\ UNCHANGED <<sx, s1, urlVars, dirVars, serve, auxVars>>

NextSanitize == SanitizeOnce \/ SanitizeTwice

SpecSanitize == InitSanitize /\ [][NextSanitize]_vars

\* C2: sanitizing a sanitized name gives the same name, of at most 150
\* characters and with none of the reserved characters
C2_SanitizeIdempotent ==
    spc = "twice" =>
        /\ s2 = s1
        /\ Len(s1) <= MAX_FILENAME
        /\ \A i \in 1..Len(s1) : s1[i] \notin ReservedChars

\* C2, the parts that hold: the length bound and the character set
C2_LengthAndCharset ==
    spc \in {"once", "twice"} =>
        /\ Len(s1) <= MAX_FILENAME
        /\ \A i \in 1..Len(s1) : s1[i] \notin ReservedChars

(***************************************************************************)
(* The classifier applied to bounded inputs                                *)
(***************************************************************************)

MaxPieces == 3

UrlPieces == {
    HTTPS_PREFIX,
    HTTP_PREFIX,
    <<"y", "o", "u", "t", "u", ".", "b", "e">>,
    <<"Y", "o", "u", "T", "u", ".", "b", "e">>,
    <<"f", "a", "c", "e", "b", "o", "o", "k", ".", "c", "o", "m">>,
    <<"e", "x", "a", "m", "p", "l", "e", ".", "o", "r", "g">>,
    <<"/">>,
    <<" ">>,
    <<"[">>
}

RECURSIVE Concat(_)
Concat(ps) == IF ps = <<>> THEN <<>> ELSE Head(ps) \o Concat(Tail(ps))

UrlInputs == {Concat(ps) : ps \in SeqsUpTo(UrlPieces, MaxPieces)}

InitUrl ==
    /\ raw \in UrlInputs
    /\ ures = NoResult
    /\ upc = "start"
    /\ SanIdle
    /\ DirIdle
    /\ AuxIdle

Validate ==
    /\ upc = "start"
    /\ ures' = validate_and_clean_url(raw)
    /\ upc' = "done"
    /\ UNCHANGED <<raw, sanVars, dirVars, serve, auxVars>>

NextUrl == Validate

SpecUrl == InitUrl /\ [][NextUrl]_vars

Accepted == upc = "done" /\ ures.error = "None"

LacksScheme(u) ==
    ~StartsWith(Strip(u), HTTP_PREFIX) /\ ~StartsWith(Strip(u), HTTPS_PREFIX)

\* the host of an accepted url
HostOf(u) == urlparse(u).netloc

MatchingEntries(text) ==
    {i \in 1..Len(SUPPORTED_PLATFORMS) :
        PatternMatches(SUPPORTED_PLATFORMS[i], text)}

LabelOfFirstMatch(text) ==
    IF MatchingEntries(text) = {} THEN "Other"
    ELSE SUPPORTED_PLATFORMS[SetMin(MatchingEntries(text))].name

\* C6 as stated: the scheme is prepended when missing, and the label is that
\* of the first table entry whose pattern matches the host, "Other" when the
\* host matches none
C6_LabelByHost ==
    Accepted =>
        /\ LacksScheme(raw) => ures.url = HTTPS_PREFIX \o Strip(raw)
        /\ ures.platform = LabelOfFirstMatch(HostOf(ures.url))

\* C6 amended: the scheme is prepended when missing, a blank input is the
\* only "URL is required" error, and the label is that of the first table
\* entry whose pattern matches anywhere in the cleaned url, "Other" when no
\* entry matches anywhere in it; no label is ever an error
C6_LabelByWholeUrl ==
    upc = "done" =>
        /\ (ures.error = "URL is required") <=> (Strip(raw) = <<>>)
        /\ Accepted =>
            /\ LacksScheme(raw) => ures.url = HTTPS_PREFIX \o Strip(raw)
            /\ ~LacksScheme(raw) => ures.url = Strip(raw)
            /\ ures.platform = LabelOfFirstMatch(ures.url)
        /\ ~Accepted => ures.platform = "Unknown" /\ ures.url = <<>>

\* C6 witness: an input without scheme is accepted and labelled by a pattern
\* that occurs in its path only, after a host that matches another entry
C6_Witness ==
    /\ Accepted
    /\ LacksScheme(raw)
    /\ ures.platform = "YouTube"
    /\ LabelOfFirstMatch(HostOf(ures.url)) = "Facebook"

(***************************************************************************)
(* check_ffmpeg(): the cached probe of the external tool                   *)
(***************************************************************************)

\* how many times one request thread calls check_ffmpeg()
MaxCalls == 2

\* what the probe finds: "True" for return code 0; "False" for another
\* return code, a missing executable or the 5 s timeout
ProbeOutcomes == {"True", "False"}

ffFrame == UNCHANGED <<sanVars, urlVars, dirVars, serve, nm, sel, fm>>

\* __main__: check_ffmpeg() is called once before app.run starts the
\* request threads
MainCheck ==
    /\ ff.entry = "main"
    /\ \E o \in ProbeOutcomes :
          ff' = [ff EXCEPT !.entry = "serving", !.cache = o, !.first = o,
                           !.probes = 1]
    /\ ffFrame

\* check_ffmpeg(): if _ffmpeg_available is not None: return it
CheckCached(p) ==
    /\ ff.entry = "serving"
    /\ ff.th[p].pc \in {"idle", "returned"}
    /\ ff.th[p].calls < MaxCalls
    /\ ff' = IF ff.cache # "None"
             THEN [ff EXCEPT !.th[p].pc = "returned",
                             !.th[p].calls = @ + 1,
                             !.th[p].hit = TRUE,
                             !.th[p].ret = ff.cache]
             ELSE [ff EXCEPT !.th[p].pc = "probe",
                             !.th[p].calls = @ + 1,
                             !.th[p].hit = FALSE]
    /\ ffFrame

\* check_ffmpeg(): subprocess.run(['ffmpeg', '-version'], timeout=5)
RunProbe(p) ==
    /\ ff.th[p].pc = "probe"
    /\ \E o \in ProbeOutcomes :
          ff' = [ff EXCEPT !.th[p].pc = "store", !.th[p].out = o,
                           !.probes = @ + 1]
    /\ ffFrame

\* check_ffmpeg(): _ffmpeg_available = True / False
StoreResult(p) ==
    /\ ff.th[p].pc = "store"
    /\ ff' = [ff EXCEPT !.th[p].pc = "return",
                        !.cache = ff.th[p].out,
                        !.first = IF @ = "None" THEN ff.th[p].out ELSE @]
    /\ ffFrame

\* check_ffmpeg(): return _ffmpeg_available
ReturnCached(p) ==
    /\ ff.th[p].pc = "return"
    /\ ff' = [ff EXCEPT !.th[p].pc = "returned", !.th[p].ret = ff.cache]
    /\ ffFrame

\* the process is started as a script (__main__ runs) or the module is
\* imported by a server that calls the routes from its own threads
InitProbe ==
    /\ \E e \in {"main", "serving"} : ff = [IdleFf EXCEPT !.entry = e]
    /\ nm = IdleNm /\ sel = IdleSel /\ fm = IdleFm
    /\ SanIdle
    /\ UrlIdle
    /\ DirIdle

NextProbe ==
    \/ MainCheck
    \/ \E p \in Procs :
          CheckCached(p) \/ RunProbe(p) \/ StoreResult(p) \/ ReturnCached(p)

SpecProbe == InitProbe /\ [][NextProbe]_vars

\* C11: the probe is executed at most once per process lifetime, also when
\* the first calls come from concurrent request threads; once the cached
\* value is set no later call changes it, and every call that finds it set
\* returns the value first cached
C11_ProbeAtMostOnce ==
    /\ [](ff.probes <= 1)
    /\ [](\A p \in Procs :
            ff.th[p].pc = "returned" /\ ff.th[p].hit =>
                ff.th[p].ret = ff.first)
    /\ [][ff.cache # "None" => ff'.cache = ff.cache]_vars

(***************************************************************************)
(* download(): the name under which an artifact is put in place            *)
(***************************************************************************)

\* longest title tried
MaxTitle == 2

\* U+0007, a control character that \s does not match
BEL == "\\x07"

PathSeparators == {"/", "\\"}

ControlChars == {"\t", "\n", BEL}

TitleAlphabet == {"a", ".", "/", "\\", "\n", BEL}

\* what the engine returned for the fetch: None, or a title and one format
NameInfos ==
    {NoInfo} \cup
    {[present |-> TRUE, title |-> t,
      formats |-> <<[format_id |-> F18, height |-> <<"3", "6", "0">>]>>] :
        t \in SeqsUpTo(TitleAlphabet, MaxTitle)}

\* the format_id the caller sent
NameFormatIds == {MP3, M4A, F18, <<".", ".", "/">>}

\* the file the job located: written by the engine as mp4 or as webm
NameOriginals == {HexToken("1") \o <<"_", "a">> \o DOT_MP4,
                  HexToken("1") \o <<"_", "a", ".", "w", "e", "b", "m">>}

InitName ==
    /\ \E i \in NameInfos, f \in NameFormatIds, o \in NameOriginals :
          nm = [IdleNm EXCEPT !.pc = "located", !.info = i,
                              !.format_id = f, !.original = o]
    /\ ff = IdleFf /\ sel = IdleSel /\ fm = IdleFm
    /\ SanIdle
    /\ UrlIdle
    /\ DirIdle

\* download(): the final filename is built and sanitized, and the located
\* file is renamed to it inside DOWNLOADS_DIR
PlaceArtifact ==
    /\ nm.pc = "located"
    /\ \E tok \in HexDigits :
          nm' = [nm EXCEPT
                   !.pc = "placed",
                   !.final = sanitize_filename(
                                 FinalFilename(nm.info, nm.format_id,
                                               nm.original, tok), tok)]
    /\ UNCHANGED <<sanVars, urlVars, dirVars, serve, ff, sel, fm>>

NextName == PlaceArtifact

SpecName == InitName /\ [][NextName]_vars

\* C12: every file a download job has put in place as a final artifact lies
\* directly inside the scratch directory and its filename contains no
\* path-separator character and no control character, whatever the title
\* and the format_id
C12_ArtifactNameClean ==
    nm.pc = "placed" =>
        /\ PathOf(nm.final) = "entry"
        /\ \A i \in 1..Len(nm.final) :
              nm.final[i] \notin PathSeparators \cup ControlChars

(***************************************************************************)
(* download(): the format selector handed to the engine                   *)
(***************************************************************************)

\* longest run of whitespace put before or after a format_id
MaxPad == 1

BEST == <<"b", "e", "s", "t">>

WORST == <<"w", "o", "r", "s", "t">>

\* 'bestaudio/best'
AUDIO_SELECTOR ==
    <<"b", "e", "s", "t", "a", "u", "d", "i", "o", "/", "b", "e",
      "s", "t">>

\* 'bestvideo[ext=mp4]+bestaudio[ext=m4a]/best[ext=mp4]/best'
BEST_SELECTOR ==
    <<"b", "e", "s", "t", "v", "i", "d", "e", "o", "[", "e", "x",
      "t", "=", "m", "p", "4", "]", "+", "b", "e", "s", "t", "a",
      "u", "d", "i", "o", "[", "e", "x", "t", "=", "m", "4", "a",
      "]", "/", "b", "e", "s", "t", "[", "e", "x", "t", "=", "m",
      "p", "4", "]", "/", "b", "e", "s", "t">>

\* 'worstvideo[ext=mp4]+worstaudio[ext=m4a]/worst[ext=mp4]/worst'
WORST_SELECTOR ==
    <<"w", "o", "r", "s", "t", "v", "i", "d", "e", "o", "[", "e",
      "x", "t", "=", "m", "p", "4", "]", "+", "w", "o", "r", "s",
      "t", "a", "u", "d", "i", "o", "[", "e", "x", "t", "=", "m",
      "4", "a", "]", "/", "w", "o", "r", "s", "t", "[", "e", "x",
      "t", "=", "m", "p", "4", "]", "/", "w", "o", "r", "s", "t">>

\* a selector choice that knows no alias for worst
FormatSelectorPlainWorst(format_id) ==
    IF format_id = MP3 THEN AUDIO_SELECTOR
    ELSE IF format_id = M4A THEN AUDIO_SELECTOR
    ELSE IF format_id = BEST THEN BEST_SELECTOR
    ELSE format_id

\* ydl_opts['format'], by the branches on is_mp3, is_m4a and format_id
FormatSelector(format_id) ==
    IF format_id = MP3 THEN AUDIO_SELECTOR
    ELSE IF format_id = M4A THEN AUDIO_SELECTOR
    ELSE IF format_id = BEST THEN BEST_SELECTOR
    ELSE IF format_id = WORST THEN WORST_SELECTOR
    ELSE format_id

SelectorBases ==
    {<<>>, MP3, M4A, BEST, WORST, F18, <<"M", "P", "3">>, <<"1", " ", "8">>,
     <<"1", "3", "7", "+", "1", "4", "0">>}

\* the format_id values of the request bodies tried
SelectorInputs ==
    {l \o b \o r : b \in SelectorBases,
                   l \in SeqsUpTo(WhitespaceChars, MaxPad),
                   r \in SeqsUpTo(WhitespaceChars, MaxPad)}

SelectorUrls == {URL_A, <<" ">>, <<"/">>}

InitSelector ==
    /\ \E u \in SelectorUrls, f \in SelectorInputs :
          sel = [IdleSel EXCEPT !.pc = "start", !.url = u, !.format_id = f]
    /\ ff = IdleFf /\ nm = IdleNm /\ fm = IdleFm
    /\ SanIdle
    /\ UrlIdle
    /\ DirIdle

\* download(), from the request body to the engine's options: the fields
\* are stripped, a missing field or a rejected url is answered 400,
\* otherwise the engine is given the selector
ChooseSelector ==
    /\ sel.pc = "start"
    /\ LET url       == Strip(sel.url)
           format_id == Strip(sel.format_id)
           checked   == validate_and_clean_url(url)
       IN  sel' = IF url = <<>> \/ format_id = <<>> \/ checked.error # "None"
                  THEN [sel EXCEPT !.pc = "done", !.status = 400]
                  ELSE [sel EXCEPT !.pc = "done", !.engine = TRUE,
                                   !.selector = FormatSelector(format_id)]
    /\ UNCHANGED <<sanVars, urlVars, dirVars, serve, ff, nm, fm>>

NextSelector == ChooseSelector

SpecSelector == InitSelector /\ [][NextSelector]_vars

Aliases == {MP3, M4A, BEST, WORST}

\* the selector the table of aliases gives for f
SelectorTable(f, selector) ==
    /\ f \in {MP3, M4A} => selector = AUDIO_SELECTOR
    /\ f = BEST => selector = BEST_SELECTOR
    /\ f = WORST => selector = WORST_SELECTOR
    /\ f \notin Aliases => selector = f

\* C13 as stated: the selector given to the engine is fixed by the
\* format_id the caller sent: the aliases mp3, m4a, best and worst map to
\* their fixed expressions and every other format_id is passed verbatim
C13_SelectorBySentId ==
    sel.pc = "done" /\ sel.engine =>
        SelectorTable(sel.format_id, sel.selector)

\* C13 amended: the selector given to the engine is fixed by the format_id
\* with its leading and trailing whitespace removed: in that form the
\* aliases mp3, m4a, best and worst map to their fixed expressions and
\* every other value is passed unchanged; a format_id that is empty in
\* that form never reaches the engine
C13_SelectorByStrippedId ==
    sel.pc = "done" =>
        /\ sel.engine => SelectorTable(Strip(sel.format_id), sel.selector)
        /\ Strip(sel.format_id) = <<>> => ~sel.engine

\* C13 witness: a padded alias and a padded plain id have reached the
\* engine's options
C13_Witness ==
    /\ sel.pc = "done" /\ sel.engine
    /\ sel.format_id = <<" ">> \o WORST \o <<"\n">>
    /\ sel.selector = WORST_SELECTOR

(***************************************************************************)
(* /api/formats: get_video_info() and get_formats()                        *)
(***************************************************************************)

\* the most encodings of one kind the engine reports
MaxPerKind == 16

\* video_formats[:15]
VIDEO_LIMIT == 15

\* audio_formats[:10]
AUDIO_LIMIT == 10

\* the codec fields an encoding can carry: a codec name, the string 'none'
\* (also the default for a missing key), or "None" for a null value
EngineKinds == <<
    [vcodec |-> "avc1", acodec |-> "none"],
    [vcodec |-> "avc1", acodec |-> "mp4a"],
    [vcodec |-> "none", acodec |-> "mp4a"],
    [vcodec |-> "none", acodec |-> "none"],
    [vcodec |-> "None", acodec |-> "opus"],
    [vcodec |-> "vp9",  acodec |-> "None"],
    [vcodec |-> "None", acodec |-> "None"] >>

\* codec != 'none' and codec is not None
HasCodec(codec) == codec # "none" /\ codec # "None"

\* format_data for the encoding at position pos of info['formats']; a
\* height, tbr or abr of 0 stands for a missing or null field
FormatData(pos, kind) ==
    [origin |-> "engine", pos |-> pos,
     vcodec |-> kind.vcodec, acodec |-> kind.acodec,
     height |-> (pos % 4) * 240, tbr |-> (pos % 3) * 100,
     abr |-> (pos % 5) * 64,
     has_video |-> HasCodec(kind.vcodec),
     has_audio |-> HasCodec(kind.acodec)]

\* mp3_format and m4a_format, appended to audio_formats
mp3_format ==
    [origin |-> "mp3", pos |-> 0, vcodec |-> "none", acodec |-> "mp3",
     height |-> 0, tbr |-> 0, abr |-> 192,
     has_video |-> FALSE, has_audio |-> TRUE]

m4a_format ==
    [origin |-> "m4a", pos |-> 0, vcodec |-> "none", acodec |-> "m4a",
     height |-> 0, tbr |-> 0, abr |-> 128,
     has_video |-> FALSE, has_audio |-> TRUE]

\* a split that tests the audio codec on its own
GoesToAudioAlso(e) == HasCodec(e.acodec)

\* get_video_info(): if vcodec != 'none' and vcodec is not None
GoesToVideo(e) == HasCodec(e.vcodec)

\* get_video_info(): elif acodec != 'none' and acodec is not None
GoesToAudio(e) == ~HasCodec(e.vcodec) /\ HasCodec(e.acodec)

\* x.get('height') or x.get('tbr') or 0
VideoKey(e) == IF e.height # 0 THEN e.height ELSE e.tbr

\* x.get('abr') or x.get('tbr') or 0
AudioKey(e) == IF e.abr # 0 THEN e.abr ELSE e.tbr

\* sorted(list, key=..., reverse=True), keys[i] being the key of list[i]:
\* descending, equal keys keep their order
SortedDesc(list, keys) ==
    LET n    == Len(list)
        rank == [i \in 1..n |->
                   1 + Cardinality({j \in 1..n :
                          \/ keys[j] > keys[i]
                          \/ keys[j] = keys[i] /\ j < i})]
    IN  [r \in 1..n |-> list[CHOOSE i \in 1..n : rank[i] = r]]

VideoKeys(list) == [i \in 1..Len(list) |-> VideoKey(list[i])]

AudioKeys(list) == [i \in 1..Len(list) |-> AudioKey(list[i])]

\* info['formats']: counts[k] encodings of kind k, kind after kind
RECURSIVE EngineFormats(_, _, _)
EngineFormats(k, counts, sofar) ==
    IF k > Len(EngineKinds) THEN sofar
    ELSE EngineFormats(k + 1, counts,
             sofar \o [i \in 1..counts[k] |->
                          FormatData(Len(sofar) + i, EngineKinds[k])])

KindCounts ==
    {c \in [1..Len(EngineKinds) -> {0, 1, MaxPerKind}] :
        \A k \in 5..Len(EngineKinds) : c[k] <= 1}

\* request bodies and what the engine does with them: a url that is
\* missing or rejected, an engine that raises or returns nothing, and the
\* engine's lists
FormatsInputs ==
    {[url |-> u, engine |-> "ok", formats |-> <<>>] : u \in {<<" ">>, <<"/">>}}
    \cup {[url |-> URL_A, engine |-> o, formats |-> <<>>] :
             o \in {"none", "raise"}}
    \cup {[url |-> URL_A, engine |-> "ok",
           formats |-> EngineFormats(1, c, <<>>)] : c \in KindCounts}

InitFormats ==
    /\ \E i \in FormatsInputs :
          fm = [IdleFm EXCEPT !.pc = "start", !.url = i.url,
                              !.engine = i.engine, !.formats = i.formats]
    /\ ff = IdleFf /\ nm = IdleNm /\ sel = IdleSel
    /\ SanIdle
    /\ UrlIdle
    /\ DirIdle

\* get_formats(): 400 for a missing or rejected url, 500 when
\* get_video_info() reports an error, otherwise the two lists, split,
\* extended by mp3 and m4a, sorted and cut
GetFormats ==
    /\ fm.pc = "start"
    /\ LET url     == Strip(fm.url)
           checked == validate_and_clean_url(url)
           video   == SelectSeq(fm.formats, GoesToVideo)
           audio   == SelectSeq(fm.formats, GoesToAudio)
                          \o <<mp3_format, m4a_format>>
       IN  fm' = IF url = <<>> \/ checked.error # "None"
                 THEN [fm EXCEPT !.pc = "done", !.status = 400]
                 ELSE IF fm.engine # "ok"
                 THEN [fm EXCEPT !.pc = "done", !.status = 500]
                 ELSE [fm EXCEPT
                         !.pc = "done", !.status = 200,
                         !.video_formats =
                             Take(SortedDesc(video, VideoKeys(video)),
                                  VIDEO_LIMIT),
                         !.audio_formats =
                             Take(SortedDesc(audio, AudioKeys(audio)),
                                  AUDIO_LIMIT)]
    /\ UNCHANGED <<sanVars, urlVars, dirVars, serve, ff, nm, sel>>

NextFormats == GetFormats

SpecFormats == InitFormats /\ [][NextFormats]_vars

Range(list) == {list[i] : i \in 1..Len(list)}

FormatsOk == fm.pc = "done" /\ fm.status = 200

\* C14: in a successful /api/formats response video_formats has at most 15
\* entries and audio_formats at most 10; video_formats holds only
\* encodings with has_video true and audio_formats only encodings with
\* has_audio true; no encoding is in both lists, an encoding with both
\* flags false is in neither, and a list shorter than its limit holds
\* every encoding of the engine that belongs to it
C14_FormatsPartitioned ==
    FormatsOk =>
        LET video == Range(fm.video_formats)
            audio == Range(fm.audio_formats)
        IN  /\ Len(fm.video_formats) <= VIDEO_LIMIT
            /\ Len(fm.audio_formats) <= AUDIO_LIMIT
            /\ \A e \in video : e.has_video /\ e \in Range(fm.formats)
            /\ \A e \in audio :
                  /\ e.has_audio
                  /\ e \in Range(fm.formats) \cup {mp3_format, m4a_format}
            /\ video \cap audio = {}
            /\ \A e \in Range(fm.formats) :
                  ~e.has_video /\ ~e.has_audio => e \notin video \cup audio
            /\ Len(fm.video_formats) < VIDEO_LIMIT =>
                  \A e \in Range(fm.formats) : e.has_video => e \in video
            /\ Len(fm.audio_formats) < AUDIO_LIMIT =>
                  \A e \in Range(fm.formats) :
                      e.has_audio /\ ~e.has_video => e \in audio

\* C14 witness: both lists were cut at their limits, and the engine had
\* reported an encoding with both flags true and one with both false
C14_Witness ==
    /\ FormatsOk
    /\ Len(fm.video_formats) = VIDEO_LIMIT
    /\ Len(fm.audio_formats) = AUDIO_LIMIT
    /\ \E e \in Range(fm.formats) : e.has_video /\ e.has_audio
    /\ \E e \in Range(fm.formats) : ~e.has_video /\ ~e.has_audio

====
